---- MODULE Spec2Model ----
(***************************************************************************)
(* A model of the alignment-graph builder (span.cpp), the column           *)
(* sum-product engine and the substitution-probability query (sumprod.cpp) *)
(* and the node-resampling move (sampler.cpp).                             *)
(***************************************************************************)
EXTENDS Integers, Sequences, FiniteSets, Bags, TLC

\* ------------------------------------------------------------------ bounds
\* Largest number of sequences for which every stream of pair draws and
\* every assignment of lp scores is explored.
MaxK == 4
\* lp scores of the explored pairwise alignments are 1..MaxLp.
MaxLp == 2
\* A number of sequences for which n_target pairs can leave the graph
\* disconnected ((K-1)(K-2)/2 >= n_target first holds at K = 10).
SparseK == 10
\* For SparseK sequences the random engine yields one of the first Window
\* undrawn pairs in colexicographic order.
Window == 3
\* Number of minSpanTree calls made on one AlignGraph.
MaxCalls == 3
\* Number of elements of the stand-alone Partition.
PartK == 5
\* Largest number of alignment columns.
MaxCols == 2
\* Number of alphabet tokens of the rate model.
AlphabetSize == 2
\* Largest number of nodes of the tree handed to the node-resampling move.
MaxNodes == 5
\* The terms of the sum of getSubProbInner lie within TermSpread (real
\* part, about 0 and about 1) and ImagSpread (imaginary part) quanta.
TermSpread == 3
ImagSpread == 2

\* ---------------------------------------------------------------- numbers
\* Doubles of getSubProbInner are held in quanta of 5e-7.
\* SUMPROD_EPSILON, 1e-6.
SUMPROD_EPSILON == 2
\* 1.0
One == 2000000

VARIABLES
    K,          \* seqs.size()
    nEdges,     \* const size_t nEdges of the constructor
    n,          \* loop counter of the constructor
    edgePath,   \* edgePath[src] = the dest keys of the stored paths
    edges,      \* edges[v] = bag of the Edges in the priority queue of v
    part,       \* Partition of the constructor / the stand-alone Partition
    laid,       \* history: every Edge handed to part.merge so far
    pc,         \* where the AlignGraph is
    calls,      \* number of minSpanTree calls started
    mstPart,    \* Partition local to minSpanTree
    paths,      \* list<AlignPath> paths of minSpanTree, each path by its key
    todo,       \* sources the for loop of minSpanTree has yet to visit
    best,       \* Edge best
    foundBest   \* bool foundBest

VARIABLES
    tree,         \* tree[r] = parent of node r (-1 for the root)
    nCols,        \* gapped.front().length()
    col,          \* AlignColSumProduct::col
    cells,        \* cells[r] = gapped[r].seq[col]
    ungappedRows, \* AlignColSumProduct::ungappedRows
    logE,         \* the buffers; a log value is held as its exponential,
    logF,         \*   so 0.0 is 1, -infinity is 0, + is * and
    logG,         \*   log_accum_exp is +
    colLogLike,
    cphase        \* where the AlignColSumProduct is

graphVars == <<K, nEdges, n, edgePath, edges, part, laid, pc, calls,
               mstPart, paths, todo, best, foundBest>>

VARIABLES
    htree,      \* history.tree of the move, as tree above
    node,       \* SampleNodeMove::node
    parent,     \* SampleNodeMove::parent
    leftChild,
    rightChild,
    mphase      \* where the SampleNodeMove constructor is

VARIABLES
    terms,      \* terms[k] = evec[i][k] * evecInv[k][j] * exp_ev_t[k]
    pval,       \* gsl_complex p of getSubProbInner
    prob,       \* the value returned
    qphase      \* where the getSubProbInner call is

sampVars == <<htree, node, parent, leftChild, rightChild, mphase>>

probVars == <<terms, pval, prob, qphase>>

colVars == <<tree, nCols, col, cells, ungappedRows, logE, logF, logG,
             colLogLike, cphase>>

vars == <<graphVars, colVars, sampVars, probVars>>

\* ------------------------------------------------------------- arithmetic
Min(a, b) == IF a < b THEN a ELSE b
Max(a, b) == IF a < b THEN b ELSE a

\* Decimal digit strings, least significant digit first: K^K does not fit
\* a machine integer for K >= 10.
RECURSIVE MulDigits(_, _, _)
MulDigits(ds, k, carry) ==
    IF ds = <<>>
    THEN IF carry = 0 THEN <<>>
         ELSE <<carry % 10>> \o MulDigits(<<>>, k, carry \div 10)
    ELSE LET v == Head(ds) * k + carry
         IN  <<v % 10>> \o MulDigits(Tail(ds), k, v \div 10)

RECURSIVE PowDigits(_, _)
PowDigits(k, e) == IF e = 0 THEN <<1>> ELSE MulDigits(PowDigits(k, e - 1), k, 0)

LessDigits(a, b) ==
    \/ Len(a) < Len(b)
    \/ /\ Len(a) = Len(b)
       /\ \E i \in 1..Len(a) :
            a[i] < b[i] /\ \A j \in (i + 1)..Len(a) : a[j] = b[j]

\* The least m' >= m with p * 2^(m' - m) >= target, p being 2^m.
RECURSIVE LeastPow2(_, _, _)
LeastPow2(p, m, target) ==
    IF ~LessDigits(p, target) THEN m
    ELSE LeastPow2(MulDigits(p, 2, 0), m + 1, target)

\* ceil (log(k) * k / log(2)): the least m with 2^m >= k^k.  (The double
\* evaluation of span.cpp:45 gives the same integer for every k in 2..13.)
CeilKLog2K(k) == LeastPow2(<<1>>, 0, PowDigits(k, k))

\* Mutant: the edge count is not capped by the number of pairs.
NumEdgesNoMin(k) == CeilKLog2K(k)

\* span.cpp:44-45
NumEdges(k) == Min((k * (k - 1)) \div 2, CeilKLog2K(k))

\* ------------------------------------------------------- AlignGraph::Edge
NewEdge(r1, r2, lp) == [row1 |-> r1, row2 |-> r2, lp |-> lp]
NoEdge == NewEdge(0, 0, 0)

\* Edge::operator< (span.h): ordering by lp.
EdgeLess(a, b) == a.lp < b.lp

\* -------------------------------------------------- AlignGraph::Partition
NewPartition(nn) ==
    [seqSetIdx |-> [i \in 0..(nn - 1) |-> i],
     seqSet    |-> [i \in 0..(nn - 1) |-> {i}],
     nSets     |-> nn]

inSameSet(p, e) == p.seqSetIdx[e.row1] = p.seqSetIdx[e.row2]

\* Mutant: the members of the absorbed set keep their old set index.
mergeNoRelabel(p, e) ==
    IF ~inSameSet(p, e)
    THEN LET i1   == p.seqSetIdx[e.row1]
             i2   == p.seqSetIdx[e.row2]
             idx1 == IF i1 > i2 THEN i2 ELSE i1
             idx2 == IF i1 > i2 THEN i1 ELSE i2
         IN  [seqSetIdx |-> p.seqSetIdx,
              seqSet    |-> [p.seqSet EXCEPT ![idx1] = @ \cup p.seqSet[idx2],
                                             ![idx2] = {}],
              nSets     |-> p.nSets - 1]
    ELSE p

\* Mutant: the swap of span.cpp:23 is missing, so the set of row2 is
\* absorbed into the set of row1 whatever their indices.
mergeNoSwap(p, e) ==
    IF ~inSameSet(p, e)
    THEN LET idx1 == p.seqSetIdx[e.row2]
             idx2 == p.seqSetIdx[e.row1]
             set2 == p.seqSet[idx2]
         IN  [seqSetIdx |-> [x \in DOMAIN p.seqSetIdx |->
                               IF x \in set2 THEN idx1 ELSE p.seqSetIdx[x]],
              seqSet    |-> [p.seqSet EXCEPT ![idx1] = @ \cup set2,
                                             ![idx2] = {}],
              nSets     |-> p.nSets - 1]
    ELSE p

merge(p, e) ==
    IF ~inSameSet(p, e)
    THEN LET i1   == p.seqSetIdx[e.row1]
             i2   == p.seqSetIdx[e.row2]
             idx1 == IF i1 > i2 THEN i2 ELSE i1
             idx2 == IF i1 > i2 THEN i1 ELSE i2
             set2 == p.seqSet[idx2]
         IN  [seqSetIdx |-> [x \in DOMAIN p.seqSetIdx |->
                               IF x \in set2 THEN idx1 ELSE p.seqSetIdx[x]],
              seqSet    |-> [p.seqSet EXCEPT ![idx1] = @ \cup set2,
                                             ![idx2] = {}],
              nSets     |-> p.nSets - 1]
    ELSE p

\* ------------------------------------------------ AlignGraph::AlignGraph
\* Mutant: the drawn pair is kept in the order drawn.
CanonAsDrawn(a, b) == <<a, b>>

\* span.cpp:53-54: the drawn pair with the smaller index first.
Canon(a, b) == IF b < a THEN <<b, a>> ELSE <<a, b>>

\* span.cpp:55: the test that sends the rejection loop round again.
Rejected(sd) == sd[1] = sd[2] \/ sd[2] \in edgePath[sd[1]]

\* The pairs the rejection loop (span.cpp:50-55) can leave with: two draws
\* from 0..K-1, swapped into order, neither equal nor already a stored key.
Undrawn ==
    {sd \in {Canon(a, b) : a \in 0..(K - 1), b \in 0..(K - 1)} : ~Rejected(sd)}

\* Colexicographic rank of a pair src < dest.
Rank(sd) == (sd[2] * (sd[2] - 1)) \div 2 + sd[1]

\* The pairs the modelled random engines can yield next.
DrawChoices ==
    LET u == Undrawn
    IN  IF K <= MaxK THEN u
        ELSE {sd \in u :
                Cardinality({o \in u : Rank(o) < Rank(sd)}) < Window}

\* The scores mx.end the modelled sequences can give the pair.
LpChoices(sd) == IF K <= MaxK THEN 1..MaxLp ELSE {1 + Rank(sd)}

\* Mutant: the loop counts edges only.
KeepDrawingCountOnly(nn, p) == nn < nEdges

\* Mutant: && in place of ||.
KeepDrawingBoth(nn, p) == nn < nEdges /\ p.nSets > 1

\* Loop test of span.cpp:48.
KeepDrawing(nn, p) == nn < nEdges \/ p.nSets > 1

\* One iteration of the constructor's loop (span.cpp:48-78).
AlignPair(src, dest, lp) ==
    /\ pc = "construct"
    /\ KeepDrawing(n, part)
    /\ ~Rejected(<<src, dest>>)
    /\ LET e == NewEdge(src, dest, lp)
       IN  /\ edgePath' = [edgePath EXCEPT ![src] = @ \cup {dest}]
           /\ edges' = [edges EXCEPT ![src] = @ (+) SetToBag({e}),
                                     ![dest] = @ (+) SetToBag({e})]
           /\ part' = merge(part, e)
           /\ laid' = laid \cup {e}
    /\ n' = n + 1
    /\ UNCHANGED <<colVars, sampVars, probVars>>
    /\ UNCHANGED <<K, nEdges, pc, calls, mstPart, paths, todo, best, foundBest>>

\* The loop test fails: the constructor returns.
Constructed ==
    /\ pc = "construct"
    /\ ~KeepDrawing(n, part)
    /\ pc' = "built"
    /\ UNCHANGED <<colVars, sampVars, probVars>>
    /\ UNCHANGED <<K, nEdges, n, edgePath, edges, part, laid, calls,
                   mstPart, paths, todo, best, foundBest>>

\* ------------------------------------------------ AlignGraph::minSpanTree
\* The edges priority_queue::top() can return: no element is above them.
Tops(q) == {t \in BagToSet(q) : \A u \in BagToSet(q) : ~EdgeLess(t, u)}

SetMin(S) == CHOOSE x \in S : \A y \in S : x <= y

\* Mutant: the comparison of span.cpp:90 the wrong way round.
BetterFlipped(found, b, t) == ~found \/ EdgeLess(t, b)

\* span.cpp:90: does the top t replace best?
Better(found, b, t) == ~found \/ EdgeLess(b, t)

\* Entering the while loop of span.cpp:84 with partition p.
EnterScan(p) ==
    IF p.nSets > 1
    THEN /\ todo' = p.seqSet[0]
         /\ foundBest' = FALSE
         /\ pc' = "scan"
    ELSE /\ todo' = {}
         /\ foundBest' = foundBest
         /\ pc' = "built"

\* minSpanTree (or mstPath) is called on the constructed graph.
MinSpanTreeCall ==
    /\ pc = "built"
    /\ calls < MaxCalls
    /\ calls' = calls + 1
    /\ paths' = <<>>
    /\ mstPart' = NewPartition(K)
    /\ EnterScan(NewPartition(K))
    /\ UNCHANGED <<colVars, sampVars, probVars>>
    /\ UNCHANGED <<K, nEdges, n, edgePath, edges, part, laid, best>>

\* span.cpp:88-89: the top of edges[src] joins two rows of one set.
PopStale ==
    /\ pc = "scan"
    /\ todo /= {}
    /\ LET src == SetMin(todo)
       IN  \E t \in Tops(edges[src]) :
             /\ inSameSet(mstPart, t)
             /\ edges' = [edges EXCEPT ![src] = @ (-) SetToBag({t})]
    /\ UNCHANGED <<colVars, sampVars, probVars>>
    /\ UNCHANGED <<K, nEdges, n, edgePath, part, laid, pc, calls,
                   mstPart, paths, todo, best, foundBest>>

\* span.cpp:90-93: the inner while has ended; compare the top with best.
TakeTop ==
    /\ pc = "scan"
    /\ todo /= {}
    /\ LET src == SetMin(todo)
       IN  /\ \/ /\ BagToSet(edges[src]) = {}
                 /\ UNCHANGED <<best, foundBest>>
              \/ \E t \in Tops(edges[src]) :
                   /\ ~inSameSet(mstPart, t)
                   /\ IF Better(foundBest, best, t)
                      THEN best' = t /\ foundBest' = TRUE
                      ELSE UNCHANGED <<best, foundBest>>
           /\ todo' = todo \ {src}
    /\ UNCHANGED <<colVars, sampVars, probVars>>
    /\ UNCHANGED <<K, nEdges, n, edgePath, edges, part, laid, pc, calls,
                   mstPart, paths>>

\* span.cpp:95: nothing was found.
NoValidEdge ==
    /\ pc = "scan"
    /\ todo = {}
    /\ ~foundBest
    /\ pc' = "failed"
    /\ UNCHANGED <<colVars, sampVars, probVars>>
    /\ UNCHANGED <<K, nEdges, n, edgePath, edges, part, laid, calls,
                   mstPart, paths, todo, best, foundBest>>

\* span.cpp:96-97 and the next test of the while loop.
Join ==
    /\ pc = "scan"
    /\ todo = {}
    /\ foundBest
    /\ paths' = Append(paths, <<best.row1, best.row2>>)
    /\ mstPart' = merge(mstPart, best)
    /\ EnterScan(merge(mstPart, best))
    /\ UNCHANGED <<colVars, sampVars, probVars>>
    /\ UNCHANGED <<K, nEdges, n, edgePath, edges, part, laid, calls, best>>

\* No AlignColSumProduct exists.
ColIdle ==
    /\ tree = <<>>
    /\ nCols = 0
    /\ col = 0
    /\ cells = <<>>
    /\ ungappedRows = <<>>
    /\ logE = <<>>
    /\ logF = <<>>
    /\ logG = <<>>
    /\ colLogLike = 0
    /\ cphase = "none"

\* No SampleNodeMove is under construction.
SampIdle ==
    /\ htree = <<>>
    /\ node = -1
    /\ parent = -1
    /\ leftChild = -1
    /\ rightChild = -1
    /\ mphase = "none"

\* No getSubProbInner call is made.
ProbIdle ==
    /\ terms = <<>>
    /\ pval = [re |-> 0, im |-> 0]
    /\ prob = 0
    /\ qphase = "none"

\* --------------------------------------------------------- specifications
InitGraph(ks) ==
    /\ K \in ks
    /\ nEdges = NumEdges(K)
    /\ n = 0
    /\ edgePath = [v \in 0..(K - 1) |-> {}]
    /\ edges = [v \in 0..(K - 1) |-> EmptyBag]
    /\ part = NewPartition(K)
    /\ laid = {}
    /\ pc = "construct"
    /\ calls = 0
    /\ mstPart = NewPartition(K)
    /\ paths = <<>>
    /\ todo = {}
    /\ best = NoEdge
    /\ foundBest = FALSE
    /\ ColIdle
    /\ SampIdle
    /\ ProbIdle

Init == InitGraph(2..MaxK)

InitBuild == InitGraph((2..MaxK) \cup {SparseK})

\* The constructor alone.
NextBuild ==
    \/ \E sd \in DrawChoices :
         \E lp \in LpChoices(sd) : AlignPair(sd[1], sd[2], lp)
    \/ Constructed

\* The constructor, then calls of minSpanTree.
Next ==
    \/ NextBuild
    \/ MinSpanTreeCall
    \/ PopStale
    \/ TakeTop
    \/ NoValidEdge
    \/ Join

Spec == Init /\ [][Next]_vars

SpecBuild == InitBuild /\ [][NextBuild]_vars

\* The constructor under a random source that does not withhold a pair for
\* ever.  A draw that the test of span.cpp:55 rejects changes nothing but the
\* loop's locals, so it is a stuttering step here; fairness is asked of the
\* iterations that leave the rejection loop.
SpecBuildFair == InitBuild /\ [][NextBuild]_vars /\ WF_vars(NextBuild)

\* ------------------------------------------------- stand-alone Partition
\* Partition::merge is called on an edge of a Partition of PartK singletons.
MergeCall(r1, r2) ==
    /\ pc = "partition"
    /\ r1 < r2
    /\ part' = merge(part, NewEdge(r1, r2, 1))
    /\ laid' = laid \cup {NewEdge(r1, r2, 1)}
    /\ UNCHANGED <<colVars, sampVars, probVars>>
    /\ UNCHANGED <<K, nEdges, n, edgePath, edges, pc, calls,
                   mstPart, paths, todo, best, foundBest>>

InitPartition ==
    /\ K = PartK
    /\ nEdges = 0
    /\ n = 0
    /\ edgePath = [v \in 0..(K - 1) |-> {}]
    /\ edges = [v \in 0..(K - 1) |-> EmptyBag]
    /\ part = NewPartition(K)
    /\ laid = {}
    /\ pc = "partition"
    /\ calls = 0
    /\ mstPart = NewPartition(K)
    /\ paths = <<>>
    /\ todo = {}
    /\ best = NoEdge
    /\ foundBest = FALSE
    /\ ColIdle
    /\ SampIdle
    /\ ProbIdle

NextPartition == \E r1 \in 0..(K - 1), r2 \in 0..(K - 1) : MergeCall(r1, r2)

SpecPartition == InitPartition /\ [][NextPartition]_vars

\* ---------------------------------------------------- Tree (tree.h)
TreeNodes(t) == DOMAIN t

parentNode(t, r) == t[r]

Children(t, r) == {c \in DOMAIN t : t[c] = r}

nChildren(t, r) == Cardinality(Children(t, r))

\* The nc-th child (from 0), children in increasing index.
getChild(t, r, nc) ==
    CHOOSE c \in Children(t, r) :
        Cardinality({d \in Children(t, r) : d < c}) = nc

isLeaf(t, r) == Children(t, r) = {}

\* The other child of the parent of r.
getSibling(t, r) == CHOOSE x \in Children(t, t[r]) : x /= r

\* The trees of the modelled alignments, nodes in post-order from 0:
\* (0,1)2 and ((0,1)2,3)4.
Cherry == [r \in 0..2 |-> IF r = 2 THEN -1 ELSE 2]

Ladder == [r \in 0..4 |-> IF r = 4 THEN -1 ELSE IF r < 2 THEN 2 ELSE 4]

ColumnTrees == {Cherry, Ladder}

\* -------------------------------------------------- alignment characters
gapChar == "-"

wildcardChar == "*"

Letters == <<"A", "C", "G", "T">>

Tokens == 1..AlphabetSize

tokenize(c) == CHOOSE i \in Tokens : Letters[i] = c

\* The characters a row of node r can hold in a column: a leaf row holds
\* tokens or gaps; an internal row is meant to hold gaps or wildcards and is
\* read from the same unchecked input (one letter stands for all).
RowChars(t, r) ==
    IF isLeaf(t, r) THEN {gapChar} \cup {Letters[i] : i \in Tokens}
    ELSE {gapChar, wildcardChar, Letters[1]}

Columns(t) == {cs \in [TreeNodes(t) -> {gapChar, wildcardChar} \cup {Letters[i] : i \in Tokens}] :
                 \A r \in TreeNodes(t) : cs[r] \in RowChars(t, r)}

isGap(cs, r) == cs[r] = gapChar

isWild(cs, r) == cs[r] = wildcardChar

\* ------------------------------------------------------ model parameters
\* exp of branchLogSubProb[r][i][j], up to a common factor.
SubProb(r, i, j) == IF i = j THEN 2 ELSE 1

\* exp of logInsProb[i], up to a common factor.
InsProb(i) == i

Ones == [i \in Tokens |-> 1]

RECURSIVE SumOver(_, _)
SumOver(S, f) ==
    IF S = {} THEN 0
    ELSE LET x == CHOOSE y \in S : TRUE IN f[x] + SumOver(S \ {x}, f)

RECURSIVE ProdOver(_, _)
ProdOver(S, f) ==
    IF S = {} THEN 1
    ELSE LET x == CHOOSE y \in S : TRUE IN f[x] * ProdOver(S \ {x}, f)

\* ------------------------------------------ AlignColSumProduct::initColumn
\* Mutant: the test admits any positive number of roots.
RootsOkAtLeastOne(cnt) == cnt >= 1

\* sumprod.cpp:224
RootsOk(cnt) == cnt = 1

\* sumprod.cpp:217
NodeOk(wild, kids) == wild \/ kids = 0

\* The loop of sumprod.cpp:214-223 from node r on; st.ok turns FALSE where
\* the assertion of line 217 fails, which ends the loop.
RECURSIVE InitColumnLoop(_, _, _, _)
InitColumnLoop(t, cs, r, st) ==
    IF r \notin TreeNodes(t) THEN st
    ELSE IF isGap(cs, r) THEN InitColumnLoop(t, cs, r + 1, st)
    ELSE IF ~NodeOk(isWild(cs, r), st.kids[r])
         THEN [st EXCEPT !.rows = Append(@, r), !.ok = FALSE]
    ELSE LET rp == parentNode(t, r)
             s1 == [st EXCEPT !.rows = Append(@, r)]
             s2 == IF rp < 0 \/ isGap(cs, rp)
                   THEN [s1 EXCEPT !.roots = Append(@, r)]
                   ELSE [s1 EXCEPT !.kids[rp] = @ + 1]
         IN  InitColumnLoop(t, cs, r + 1, s2)

\* initColumn on column cs: the rows found, and whether both assertions held.
initColumn(t, cs) ==
    LET st == InitColumnLoop(t, cs, 0,
                [rows |-> <<>>, kids |-> [r \in TreeNodes(t) |-> 0],
                 roots |-> <<>>, ok |-> TRUE])
    IN  [rows |-> st.rows, ok |-> st.ok /\ RootsOk(Len(st.roots))]

\* ---------------------------------------------- AlignColSumProduct::fillUp
\* root(): the last of ungappedRows (sumprod.h).
root(rows) == rows[Len(rows)]

columnEmpty(rows) == rows = <<>>

\* The body of the loop of sumprod.cpp:239-264 for the k-th row.
RECURSIVE FillUpLoop(_, _, _, _, _)
FillUpLoop(t, cs, rows, k, st) ==
    IF k > Len(rows) THEN st
    ELSE LET r  == rows[k]
             Fr == IF isWild(cs, r)
                   THEN [i \in Tokens |->
                           ProdOver(0..(nChildren(t, r) - 1),
                                    [nc \in 0..(nChildren(t, r) - 1) |->
                                       st.E[getChild(t, r, nc)][i]])]
                   ELSE [i \in Tokens |-> IF i = tokenize(cs[r]) THEN 1 ELSE 0]
             s1 == [st EXCEPT !.F[r] = Fr]
             s2 == IF r = root(rows)
                   THEN [s1 EXCEPT !.like =
                           SumOver(Tokens, [i \in Tokens |-> Fr[i] * InsProb(i)])]
                   ELSE [s1 EXCEPT !.E[r] = [i \in Tokens |->
                           SumOver(Tokens, [j \in Tokens |-> SubProb(r, i, j) * Fr[j]])]]
         IN  FillUpLoop(t, cs, rows, k + 1, s2)

fillUp(t, cs, rows, E, F) ==
    FillUpLoop(t, cs, rows, 1, [E |-> E, F |-> F, like |-> 0])

\* -------------------------------------------- AlignColSumProduct::fillDown
\* The loop of sumprod.cpp:271-281, k running down from the last row but one.
RECURSIVE FillDownLoop(_, _, _, _, _)
FillDownLoop(t, rows, k, E, G) ==
    IF k < 1 THEN G
    ELSE LET r  == rows[k]
             rp == parentNode(t, r)
             rs == getSibling(t, r)
             Gr == [j \in Tokens |->
                      SumOver(Tokens,
                              [i \in Tokens |->
                                 G[rp][i] * SubProb(r, i, j) * E[rs][i]])]
         IN  FillDownLoop(t, rows, k - 1, E, [G EXCEPT ![r] = Gr])

\* Mutant: the pass is seeded at the front of ungappedRows.
fillDownFromFront(t, rows, E, G) ==
    IF ~columnEmpty(rows)
    THEN FillDownLoop(t, rows, Len(rows) - 1, E,
                      [G EXCEPT ![rows[1]] = [i \in Tokens |-> InsProb(i)]])
    ELSE G

fillDown(t, rows, E, G) ==
    IF ~columnEmpty(rows)
    THEN FillDownLoop(t, rows, Len(rows) - 1, E,
                      [G EXCEPT ![root(rows)] = [i \in Tokens |-> InsProb(i)]])
    ELSE G

\* ------------------------------------------------ AlignColSumProduct steps
alignmentDone(c) == c >= nCols

\* The effect of initColumn on the object.
InitColumnStep(cs) ==
    LET res == initColumn(tree, cs)
    IN  /\ ungappedRows' = res.rows
        /\ cphase' = IF res.ok THEN "inited" ELSE "failed"

\* The constructor (sumprod.cpp:178-203) on the chosen tree and alignment.
NewSumProduct ==
    /\ cphase = "new"
    /\ InitColumnStep(cells)
    /\ UNCHANGED <<tree, nCols, col, cells, logE, logF, logG, colLogLike>>
    /\ UNCHANGED <<graphVars, sampVars, probVars>>

FillUp ==
    /\ cphase = "inited"
    /\ LET st == fillUp(tree, cells, ungappedRows, logE, logF)
       IN  /\ logE' = st.E
           /\ logF' = st.F
           /\ colLogLike' = st.like
    /\ cphase' = "up"
    /\ UNCHANGED <<tree, nCols, col, cells, ungappedRows, logG>>
    /\ UNCHANGED <<graphVars, sampVars, probVars>>

FillDown ==
    /\ cphase = "up"
    /\ logG' = fillDown(tree, ungappedRows, logE, logG)
    /\ cphase' = "down"
    /\ UNCHANGED <<tree, nCols, col, cells, ungappedRows, logE, logF, colLogLike>>
    /\ UNCHANGED <<graphVars, sampVars, probVars>>

\* nextColumn (sumprod.cpp:231-235) moving to a column cs of the alignment.
NextColumn ==
    /\ cphase \in {"inited", "up", "down"}
    /\ ~alignmentDone(col + 1)
    /\ col' = col + 1
    /\ \E cs \in Columns(tree) :
         /\ cells' = cs
         /\ InitColumnStep(cs)
    /\ UNCHANGED <<tree, nCols, logE, logF, logG, colLogLike>>
    /\ UNCHANGED <<graphVars, sampVars, probVars>>

\* nextColumn moving past the last column.
LastColumn ==
    /\ cphase \in {"inited", "up", "down"}
    /\ alignmentDone(col + 1)
    /\ col' = col + 1
    /\ cphase' = "done"
    /\ UNCHANGED <<tree, nCols, cells, ungappedRows, logE, logF, logG,
                   colLogLike>>
    /\ UNCHANGED <<graphVars, sampVars, probVars>>

GraphIdle ==
    /\ K = 0
    /\ nEdges = 0
    /\ n = 0
    /\ edgePath = <<>>
    /\ edges = <<>>
    /\ part = NewPartition(0)
    /\ laid = {}
    /\ pc = "none"
    /\ calls = 0
    /\ mstPart = NewPartition(0)
    /\ paths = <<>>
    /\ todo = {}
    /\ best = NoEdge
    /\ foundBest = FALSE

InitColumns ==
    /\ GraphIdle
    /\ SampIdle
    /\ ProbIdle
    /\ tree \in ColumnTrees
    /\ nCols \in 1..MaxCols
    /\ col = 0
    /\ cells \in Columns(tree)
    /\ ungappedRows = <<>>
    /\ logE = [r \in TreeNodes(tree) |-> Ones]
    /\ logF = [r \in TreeNodes(tree) |-> Ones]
    /\ logG = [r \in TreeNodes(tree) |-> Ones]
    /\ colLogLike = 0
    /\ cphase = "new"

NextColumns ==
    \/ NewSumProduct
    \/ FillUp
    \/ FillDown
    \/ NextColumn
    \/ LastColumn

SpecColumns == InitColumns /\ [][NextColumns]_vars

\* ------------------------------------------------ Sampler::SampleNodeMove
\* Every tree of nn nodes in post-order: each child below its parent, the
\* root last.
PostOrderTrees(nn) ==
    {t \in [0..(nn - 1) -> -1..(nn - 1)] :
        /\ t[nn - 1] = -1
        /\ \A r \in 0..(nn - 2) : t[r] > r}

SamplerTrees == UNION {PostOrderTrees(nn) : nn \in 2..MaxNodes}

\* intNodes of randomInternalNode (sampler.cpp:5-9).
intNodes(t) == {nd \in TreeNodes(t) : ~isLeaf(t, nd)}

\* sampler.cpp:46-47: random_element (intNodes), then parentNode.
RandomInternalNode ==
    /\ mphase = "start"
    /\ \E nd \in intNodes(htree) :
         /\ node' = nd
         /\ parent' = parentNode(htree, nd)
    /\ mphase' = "chosen"
    /\ UNCHANGED <<htree, leftChild, rightChild>>
    /\ UNCHANGED <<graphVars, colVars, probVars>>

\* sampler.cpp:48: the assertion fails.
NonBinaryNode ==
    /\ mphase = "chosen"
    /\ nChildren(htree, node) /= 2
    /\ mphase' = "NonBinaryNode"
    /\ UNCHANGED <<htree, node, parent, leftChild, rightChild>>
    /\ UNCHANGED <<graphVars, colVars, probVars>>

\* sampler.cpp:49-71: the children, the closest leaves, the envelope and
\* the AlignmentMatrix.  closestLeaf (parent) and history.gapped[parent]
\* with parent = -1 read outside the tree and the alignment: the build
\* decides whether that is caught.
PrepareMatrix ==
    /\ mphase = "chosen"
    /\ nChildren(htree, node) = 2
    /\ leftChild' = getChild(htree, node, 0)
    /\ rightChild' = getChild(htree, node, 1)
    /\ mphase' \in (IF parent >= 0 THEN {"matrix"} ELSE {"matrix", "fault"})
    /\ UNCHANGED <<htree, node, parent>>
    /\ UNCHANGED <<graphVars, colVars, probVars>>

InitSampler ==
    /\ GraphIdle
    /\ ColIdle
    /\ ProbIdle
    /\ htree \in SamplerTrees
    /\ node = -1
    /\ parent = -1
    /\ leftChild = -1
    /\ rightChild = -1
    /\ mphase = "start"

NextSampler ==
    \/ RandomInternalNode
    \/ NonBinaryNode
    \/ PrepareMatrix

SpecSampler == InitSampler /\ [][NextSampler]_vars

\* ------------------------------------------- EigenModel::getSubProbInner
Abs(x) == IF x < 0 THEN -x ELSE x

\* frexp and ldexp of gsl_fcmp (x, 0, epsilon) for x /= 0: with e the
\* exponent of x (2^(e-1) <= |x| < 2^e), is |x| <= epsilon * 2^e ?
\* q is x in quanta; s is 2^e for e >= 0 (up = TRUE) or 2^(-e) (up = FALSE).
RECURSIVE WithinDeltaUp(_, _)
WithinDeltaUp(q, s) ==
    IF q < One * s THEN q <= SUMPROD_EPSILON * s
    ELSE WithinDeltaUp(q, 2 * s)

RECURSIVE WithinDeltaDown(_, _)
WithinDeltaDown(q, s) ==
    IF q * 2 * s < One THEN WithinDeltaDown(q, 2 * s)
    ELSE q * s <= SUMPROD_EPSILON

\* SUMPROD_NEAR_EQ (x, 0): gsl_fcmp (x, 0, SUMPROD_EPSILON) == 0.
NearZero(q) ==
    IF q = 0 THEN TRUE
    ELSE IF Abs(q) >= One THEN WithinDeltaUp(Abs(q), 2)
    ELSE WithinDeltaDown(Abs(q), 1)

\* SUMPROD_NEAR_REAL (sumprod.cpp:14)
NearReal(c) == NearZero(c.im)

\* gsl_complex_add over the terms 1..k (sumprod.cpp:108-114).
RECURSIVE SumTerms(_, _)
SumTerms(ts, k) ==
    IF k = 0 THEN [re |-> 0, im |-> 0]
    ELSE LET q == SumTerms(ts, k - 1)
         IN  [re |-> q.re + ts[k].re, im |-> q.im + ts[k].im]

\* Mutant: the upper clamp is missing.
ClampNoUpper(x) == Max(0, x)

\* sumprod.cpp:116
Clamp(x) == Min(One, Max(0, x))

\* getSubProbInner fails its assertion (sumprod.cpp:115).
ImaginaryProbability ==
    /\ qphase = "call"
    /\ ~NearReal(SumTerms(terms, Len(terms)))
    /\ pval' = SumTerms(terms, Len(terms))
    /\ qphase' = "NumericalFailure"
    /\ UNCHANGED <<terms, prob>>
    /\ UNCHANGED <<graphVars, colVars, sampVars>>

\* getSubProbInner returns (sumprod.cpp:116).
ReturnProbability ==
    /\ qphase = "call"
    /\ NearReal(SumTerms(terms, Len(terms)))
    /\ pval' = SumTerms(terms, Len(terms))
    /\ prob' = Clamp(SumTerms(terms, Len(terms)).re)
    /\ qphase' = "returned"
    /\ UNCHANGED terms
    /\ UNCHANGED <<graphVars, colVars, sampVars>>

\* The first term ranges about 0 and about 1, the others about 0.
WideTerms ==
    {[re |-> r, im |-> i] :
       r \in (-TermSpread..TermSpread) \cup ((One - TermSpread)..(One + TermSpread)),
       i \in -ImagSpread..ImagSpread}

SmallTerms == {[re |-> r, im |-> i] : r \in -TermSpread..TermSpread, i \in -1..1}

InitSubProb ==
    /\ GraphIdle
    /\ ColIdle
    /\ SampIdle
    /\ terms \in {ts \in [Tokens -> WideTerms \cup SmallTerms] :
                    \A k \in Tokens : k > 1 => ts[k] \in SmallTerms}
    /\ pval = [re |-> 0, im |-> 0]
    /\ prob = 0
    /\ qphase = "call"

NextSubProb ==
    \/ ImaginaryProbability
    \/ ReturnProbability

SpecSubProb == InitSubProb /\ [][NextSubProb]_vars

\* ------------------------------------------------------ reference notions
Verts == 0..(K - 1)

\* The vertices joined to S by edges of E.
RECURSIVE ReachFrom(_, _)
ReachFrom(S, E) ==
    LET T == S \cup {e.row2 : e \in {f \in E : f.row1 \in S}}
               \cup {e.row1 : e \in {f \in E : f.row2 \in S}}
    IN  IF T = S THEN S ELSE ReachFrom(T, E)

Components(E) == {ReachFrom({v}, E) : v \in Verts}

Connects(E) == ReachFrom({0}, E) = Verts

RECURSIVE TotalLp(_)
TotalLp(E) ==
    IF E = {} THEN 0
    ELSE LET e == CHOOSE x \in E : TRUE IN e.lp + TotalLp(E \ {e})

SpanningTrees(E) == {T \in SUBSET E : Cardinality(T) = K - 1 /\ Connects(T)}

Keys(E) == {<<e.row1, e.row2>> : e \in E}

\* The edges whose paths the running or last call of minSpanTree returned.
PathEdges == {e \in laid : \E i \in 1..Len(paths) : paths[i] = <<e.row1, e.row2>>}

NonEmptySets(p) == {p.seqSet[i] : i \in DOMAIN p.seqSet} \ {{}}

\* ------------------------------------------------------------------ claims
\* C1: the first call of minSpanTree on a constructed AlignGraph never hits
\* "Found no valid edge", can always take its next step, and returns K-1
\* paths whose edges are distinct edges of the graph, connect all K
\* vertices and contain no cycle (every one of them is a bridge).
C1_FirstCallSpanningTree ==
    calls = 1 =>
      /\ pc /= "failed"
      /\ pc = "scan" => ENABLED (PopStale \/ TakeTop \/ Join)
      /\ pc = "built" =>
           /\ Len(paths) = K - 1
           /\ Cardinality(PathEdges) = K - 1
           /\ Connects(PathEdges)
           /\ \A e \in PathEdges : ~Connects(PathEdges \ {e})

C1_Witness ==
    calls = 1 /\ pc = "built" /\ K = MaxK /\ Len(paths) = MaxK - 1

\* C2: the edges of the first call's paths have a total lp that no spanning
\* tree of the constructed graph exceeds, whatever the lp scores and
\* whichever of several equal tops a queue yields.
C2_FirstCallMaximal ==
    (calls = 1 /\ pc = "built") =>
      /\ PathEdges \in SpanningTrees(laid)
      /\ \A T \in SpanningTrees(laid) : TotalLp(T) <= TotalLp(PathEdges)

\* A graph with a tie and with spanning trees of different weight.
C2_Witness ==
    /\ calls = 1 /\ pc = "built" /\ K = MaxK
    /\ \E T \in SpanningTrees(laid) : TotalLp(T) < TotalLp(PathEdges)
    /\ \E e \in PathEdges, f \in laid \ PathEdges : e.lp = f.lp

\* C3: when the constructor returns, nSets = 1, every sequence has the
\* same set index and the drawn edges connect all K sequences.
C3_BuiltConnected ==
    pc = "built" =>
      /\ part.nSets = 1
      /\ \A v \in Verts : part.seqSetIdx[v] = part.seqSetIdx[0]
      /\ Connects(laid)

\* The edge count was reached with the sequences still in several sets.
C3_Witness == pc = "built" /\ n > nEdges /\ part.nSets = 1

\* n_target of the claim.
NTarget == Min((K * (K - 1)) \div 2, CeilKLog2K(K))

\* C4 as stated: the number of edges laid down equals n_target.
C4_ExactlyTarget == pc = "built" => Cardinality(laid) = NTarget

\* C4 amended: the number of edges laid down (= loop iterations = stored
\* paths) is at least n_target; when it exceeds n_target the last edge laid
\* was needed to connect the sequences, i.e. drawing went on only while
\* nSets > 1.
C4_AtLeastTarget ==
    /\ nEdges = NTarget
    /\ pc = "construct" /\ n > nEdges => part.nSets > 1 \/ ENABLED Constructed
    /\ pc = "built" =>
         /\ Cardinality(laid) = n
         /\ Cardinality(UNION {{<<s, d>> : d \in edgePath[s]} : s \in Verts}) = n
         /\ n >= NTarget
         /\ n > NTarget => \E e \in laid : ~Connects(laid \ {e})

C4_Witness == pc = "built" /\ n > NTarget /\ Cardinality(laid) = n

\* C5: after any sequence of merge calls on K singletons, two elements have
\* the same set index iff the merged edges connect them; the non-empty
\* member sets are the connected components (so disjoint and covering);
\* each element's set index names the member set holding it; nSets counts
\* the non-empty member sets; and (1,3),(0,4),(3,4) on 5 singletons leave
\* nSets = 2 with sets {0,1,3,4} and {2}.
C5_PartitionComponents ==
    /\ \A a \in Verts, b \in Verts :
         (part.seqSetIdx[a] = part.seqSetIdx[b]) <=> (b \in ReachFrom({a}, laid))
    /\ \A a \in Verts, b \in Verts :
         a < b => (inSameSet(part, NewEdge(a, b, 1)) <=> (b \in ReachFrom({a}, laid)))
    /\ NonEmptySets(part) = Components(laid)
    /\ \A i \in Verts, j \in Verts :
         i /= j => part.seqSet[i] \cap part.seqSet[j] = {}
    /\ UNION NonEmptySets(part) = Verts
    /\ \A a \in Verts : a \in part.seqSet[part.seqSetIdx[a]]
    /\ part.nSets = Cardinality(NonEmptySets(part))
    /\ (K = 5 /\ Keys(laid) = {<<1, 3>>, <<0, 4>>, <<3, 4>>}) =>
         /\ part.nSets = 2
         /\ NonEmptySets(part) = {{0, 1, 3, 4}, {2}}

C5_Witness ==
    /\ K = 5
    /\ Keys(laid) = {<<1, 3>>, <<0, 4>>, <<3, 4>>}
    /\ part.nSets = 2

\* A column on which initColumn has run (and no later call has acted).
ColumnTried == cphase \in {"inited", "up", "down", "failed"}

\* The ungapped nodes whose parent is absent or gapped in the column.
RootCandidates ==
    {r \in TreeNodes(tree) :
        ~isGap(cells, r) /\ (tree[r] < 0 \/ isGap(cells, tree[r]))}

Ungapped == {r \in TreeNodes(tree) : ~isGap(cells, r)}

\* C6: initColumn, at construction and after every nextColumn, succeeds only
\* on a column with exactly one ungapped node whose parent is absent or
\* gapped; with two or more such nodes, or none, it fails.
C6_ExactlyOneRoot ==
    ColumnTried =>
      /\ cphase /= "failed" => Cardinality(RootCandidates) = 1
      /\ Cardinality(RootCandidates) /= 1 => cphase = "failed"

\* A column of gaps only, reached by nextColumn, is refused.
C6_Witness ==
    /\ cphase = "failed"
    /\ col = 1
    /\ RootCandidates = {}
    /\ Ungapped = {}

\* C7 as stated: initColumn fails whenever an internal node's cell is
\* neither a gap nor the wildcard.
C7_NonWildInternalFails ==
    (ColumnTried /\ \E r \in TreeNodes(tree) :
                      ~isLeaf(tree, r) /\ ~isGap(cells, r) /\ ~isWild(cells, r))
      => cphase = "failed"

\* What fillUp and fillDown give for the current column on a fresh object.
FreshUp ==
    fillUp(tree, cells, ungappedRows,
           [r \in TreeNodes(tree) |-> Ones], [r \in TreeNodes(tree) |-> Ones])

FreshDown ==
    fillDown(tree, ungappedRows, FreshUp.E, [r \in TreeNodes(tree) |-> Ones])

\* C8 as stated: after fillUp the logF of a wildcard node is the sum of
\* logE over its children in U_c only, and the F, E, colLogLike (and after
\* fillDown the G) of the column's nodes are what a fresh object gives for
\* the column, whatever columns came before.
C8_GappedNodesNeverContribute ==
    cphase \in {"up", "down"} =>
      /\ \A r \in Ungapped :
           isWild(cells, r) =>
             logF[r] = [i \in Tokens |->
                          ProdOver(Children(tree, r) \cap Ungapped,
                                   [c \in Children(tree, r) \cap Ungapped |->
                                      logE[c][i]])]
      /\ colLogLike = FreshUp.like
      /\ \A r \in Ungapped :
           /\ logF[r] = FreshUp.F[r]
           /\ r /= root(ungappedRows) => logE[r] = FreshUp.E[r]
           /\ cphase = "down" => logG[r] = FreshDown[r]

\* C9 as stated: the node chosen by the node-resampling move is never a
\* leaf and never the tree root (it has a parent), and the envelope and the
\* matrix are built only for a node with exactly two children.
C9_ChosenNodeHasParent ==
    mphase \notin {"none", "start"} =>
      /\ ~isLeaf(htree, node)
      /\ parentNode(htree, node) >= 0
      /\ parent >= 0
      /\ mphase \in {"matrix", "fault"} => nChildren(htree, node) = 2

\* C10 as stated: failure when the imaginary part is beyond epsilon, failure
\* likewise when the real part is below -epsilon, and a returned value is
\* in [0,1], real parts in [-epsilon,0] giving 0 and in (1,1+epsilon] giving 1.
C10_FailsBelowMinusEpsilon ==
    qphase /= "call" =>
      /\ Abs(pval.im) > SUMPROD_EPSILON => qphase = "NumericalFailure"
      /\ pval.re < -SUMPROD_EPSILON => qphase = "NumericalFailure"
      /\ qphase = "returned" =>
           /\ prob >= 0 /\ prob <= One
           /\ pval.re <= 0 => prob = 0
           /\ (pval.re > One /\ pval.re <= One + SUMPROD_EPSILON) => prob = One

\* C10 amended: the call fails when the imaginary part of p is beyond
\* epsilon (and, the tolerance of gsl_fcmp being relative, for every
\* non-zero imaginary part); it never fails on account of the real part;
\* when it does not fail it returns min(1, max(0, Re p)): a real part below
\* -epsilon gives 0 like any other negative one, a real part above 1 gives 1.
C10_ClampsWithoutFailing ==
    qphase /= "call" =>
      /\ pval = SumTerms(terms, Len(terms))
      /\ Abs(pval.im) > SUMPROD_EPSILON => qphase = "NumericalFailure"
      /\ (qphase = "NumericalFailure") <=> (pval.im /= 0)
      /\ qphase = "returned" =>
           /\ prob >= 0 /\ prob <= One
           /\ pval.re <= 0 => prob = 0
           /\ pval.re >= One => prob = One
           /\ (pval.re >= 0 /\ pval.re <= One) => prob = pval.re

\* A real part below -epsilon is returned as 0.
C10_Witness ==
    /\ qphase = "returned"
    /\ pval.re < -SUMPROD_EPSILON
    /\ pval.im = 0
    /\ prob = 0

\* A column initColumn has accepted (and no later call has replaced).
ColumnAccepted == cphase \in {"inited", "up", "down"}

\* C11: on a post-ordered tree, for every accepted column, ungappedRows is
\* in increasing node index and holds exactly the ungapped nodes, every one
\* of them but the column root has its parent among them, and the column
\* root is the last; so after fillUp the logF of a wildcard node is made of
\* the logE its children have at the end of the pass, and after fillDown the
\* column root's logG is logInsProb and every other node's logG is made of
\* the logG its parent has at the end of the pass.
C11_ParentClosedPostOrder ==
    ColumnAccepted =>
      LET rows == ungappedRows
          last == rows[Len(rows)]
      IN  /\ rows /= <<>>
          /\ \A k \in 1..(Len(rows) - 1) : rows[k] < rows[k + 1]
          /\ {rows[k] : k \in 1..Len(rows)} = Ungapped
          /\ RootCandidates = {last}
          /\ \A r \in Ungapped \ {last} : tree[r] \in Ungapped
          /\ cphase \in {"up", "down"} =>
               \A r \in Ungapped :
                 isWild(cells, r) =>
                   logF[r] = [i \in Tokens |->
                                ProdOver(Children(tree, r),
                                         [c \in Children(tree, r) |-> logE[c][i]])]
          /\ cphase = "down" =>
               /\ logG[last] = [i \in Tokens |-> InsProb(i)]
               /\ \A r \in Ungapped \ {last} :
                    logG[r] = [j \in Tokens |->
                                 SumOver(Tokens,
                                         [i \in Tokens |->
                                            logG[tree[r]][i] * SubProb(r, i, j)
                                              * logE[getSibling(tree, r)][i]])]

\* Both passes have run on a column of the ladder tree that holds a leaf,
\* its parent and the tree root, two levels below the column root.
C11_Witness ==
    /\ cphase = "down"
    /\ tree = Ladder
    /\ ungappedRows = <<0, 1, 2, 4>>
    /\ logG[4] = [i \in Tokens |-> InsProb(i)]
    /\ logG[0] /= Ones

\* The stored paths, each by its key (src, dest).
StoredPaths == UNION {{<<s, d>> : d \in edgePath[s]} : s \in Verts}

\* C12: throughout the construction every stored path has a key with
\* src < dest, every edge has row1 < row2, no two edges join the same
\* unordered pair, the stored paths and the edges are as many as the loop
\* iterations, and each edge sits exactly once in the queue of each of its
\* two endpoints and in no other queue.
C12_NoPairAlignedTwice ==
    pc \in {"construct", "built"} =>
      /\ \A sd \in StoredPaths : sd[1] < sd[2]
      /\ \A e \in laid : e.row1 < e.row2
      /\ Keys(laid) = StoredPaths
      /\ Cardinality({{e.row1, e.row2} : e \in laid}) = n
      /\ Cardinality(StoredPaths) = n
      /\ Cardinality(laid) = n
      /\ \A v \in Verts :
           /\ BagToSet(edges[v]) = {e \in laid : v \in {e.row1, e.row2}}
           /\ \A e \in BagToSet(edges[v]) : CopiesIn(e, edges[v]) = 1

\* Every pair of MaxK sequences has been drawn, each once.
C12_Witness ==
    /\ pc = "built"
    /\ K = MaxK
    /\ n = (MaxK * (MaxK - 1)) \div 2
    /\ StoredPaths = {sd \in Verts \X Verts : sd[1] < sd[2]}

\* C13 as stated: every call of minSpanTree on the constructed graph, the
\* second and later ones included, ends without "Found no valid edge" and
\* returns K-1 paths whose edges are a spanning tree that no spanning tree
\* of the graph outweighs.
C13_EveryCallMaximal ==
    calls >= 1 =>
      /\ pc /= "failed"
      /\ pc = "built" =>
           /\ Len(paths) = K - 1
           /\ PathEdges \in SpanningTrees(laid)
           /\ \A T \in SpanningTrees(laid) : TotalLp(T) <= TotalLp(PathEdges)

\* K(K-1)/2, the number of unordered pairs of distinct sequences.
NumPairs == (K * (K - 1)) \div 2

\* C14: whenever the loop body is entered some pair with src /= dest is
\* still undrawn, so the rejection loop can be left; fewer than K(K-1)/2
\* pairs have then been aligned; and under a fair random source the
\* constructor returns, having aligned at most K(K-1)/2 pairs.
C14_ConstructionTerminates ==
    /\ [](pc = "construct" /\ KeepDrawing(n, part) =>
             /\ Undrawn /= {}
             /\ \A sd \in Undrawn : sd[1] /= sd[2]
             /\ n < NumPairs)
    /\ [](pc = "built" => n <= NumPairs)
    /\ <>(pc = "built")

\* The loop body is entered with a single pair left to draw.
C14_Witness ==
    /\ pc = "construct"
    /\ K = MaxK
    /\ KeepDrawing(n, part)
    /\ Cardinality(Undrawn) = 1
    /\ n = NumPairs - 1

====
